---- MODULE Spec2Model ----
(***************************************************************************)
(* The batch controller of VisionIngest (the React component App) and the   *)
(* parts of FileUpload and ResultDisplay that call it.                      *)
(*                                                                          *)
(* A run is one invocation of the async function handleStart.  It executes  *)
(* synchronously up to its next await; every await of the three policies is *)
(* a fetch (with the response body read), so a run is suspended only while  *)
(* one of the four stage calls is in flight.  One action below is one such  *)
(* synchronous stretch: an event handler, or the continuation of a run from *)
(* the completion of its call to the issue of its next call.                *)
(*                                                                          *)
(* A fetch issued with an AbortSignal rejects with AbortError as soon as    *)
(* the signal is aborted; the continuation runs in the microtask queue,     *)
(* before the next event handler or network completion.  Such a step is     *)
(* called urgent: while one is pending, nothing else happens.               *)
(***************************************************************************)
EXTENDS Integers, Sequences, FiniteSets, TLC

\* Bounds of the model.
MaxFiles == 2
MaxRuns == 2
\* The longest file list of the upload panel and the most files in one drop.
MaxUploads == 4
MaxDrop == 2

Modes == {"performance", "batch", "lowvram"}

\* A run that was never started: its mode, its files.length, where it is
\* suspended, the loop index i, the signal given to the fetch in flight,
\* and Batch's markdownResults (the indices) with the Phase 3 position.
IdleRun == [mode |-> "performance", n |-> 0, pc |-> "idle", i |-> 0,
            sig |-> 0, md |-> <<>>, p |-> 0]
Outcomes == {"ok", "fail"}

\* An absent optional field of ResultItem (undefined).
NoData == -1

\* A third outcome: an OK response whose body lacks the field the policy
\* reads (data.markdown, data.raw_output, data.parsed_data).
FaultyOutcomes == Outcomes \cup {"malformed"}

\* The field read from the body of an OK response: the datum of file v, or
\* undefined when the body lacks it.
Field(o, v) == IF o = "ok" THEN v ELSE NoData

NoError == ""
\* The value handleApplyChanges passes to onUpdate: JSON.parse(editedJson).
EditedJson == -2
\* abortControllerRef.current = null
NullRef == 0
\* selectedResult = null: no job, so no fileUrl (the object URLs count from 1).
NoUrl == 0

\* fetchWithRetry's parameter maxRetries (30 by default, and no caller passes
\* another value), cut down to a few attempts.
MaxRetries == 3
\* The urls the mount effect hands to fetchWithRetry.
Urls == {"/api/ollama/models", "/api/templates"}
\* How `await fetch(url)` settles: it rejects (connection refused), or resolves
\* to a response with res.ok false or true.
FetchOutcomes == {"refused", "notok", "ok"}
\* The body of an OK response: JSON of the shape the callback reads; text
\* res.json() rejects; or JSON `null`, which parses and on which both
\* callbacks throw at `data.status`.
Bodies == {"good", "nojson", "null"}

VARIABLES
    results,        \* App state `results`: the job list
    isProcessing,   \* App state `isProcessing`
    abortRef,       \* abortControllerRef.current: a controller id or NullRef
    aborted,        \* controllers whose signal is aborted
    runs,           \* the invocations of handleStart, by run id
    nRuns,          \* number of handleStart invocations so far
    nextUrl,        \* object URLs created so far (URL.createObjectURL)
    revoked,        \* object URLs revoked (URL.revokeObjectURL)
    selectedIndex,  \* ResultDisplay state `selectedIndex`
    selectedOpen,   \* ResultDisplay state `selectedResult` is non-null
    selectedUrl,    \* the fileUrl of `selectedResult`, or NoUrl
    stopped,        \* history: handleStop was called and handleStart not since
    last,           \* history: the operation of the last step
    files,          \* FileUpload state `files`: the files chosen
    retry           \* the two invocations of fetchWithRetry, by url

vars == <<results, isProcessing, abortRef, aborted, runs, nRuns, nextUrl,
          revoked, selectedIndex, selectedOpen, selectedUrl, stopped, last,
          files, retry>>

RunIds == 1..MaxRuns
CallPcs == {"process", "extract", "unload", "parse"}

\* `abortControllerRef.current?.signal.aborted`
SignalAborted == abortRef # NullRef /\ abortRef \in aborted

\* The signal attached to the call of run r is aborted.
CallAborted(r) == runs[r].sig # NullRef /\ runs[r].sig \in aborted

\* { ...r, ...u }: the job r with the fields of u overwritten.
Merge(r, u) == [f \in DOMAIN r |-> IF f \in DOMAIN u THEN u[f] ELSE r[f]]

\* prev.map((r, idx) => idx === i ? { ...r, ...u } : r), with the 0-based
\* index i.
MapAt(res, i, u) ==
    [k \in 1..Len(res) |-> IF k = i + 1 THEN Merge(res[k], u) ELSE res[k]]

\* status: 'processing'
SetProcessing == [status |-> "processing"]

\* status: 'pending'
SetPending == [status |-> "pending"]

\* status: 'error', error: err.message
SetError(msg) == [status |-> "error", error |-> msg]

\* status: 'success', parsedJson: data.parsed_data, processingTime
SetParsed(f) ==
    [status |-> "success", parsedJson |-> f, processingTime |-> 1]

\* status: 'success', rawMarkdown: data.raw_output,
\* parsedJson: data.parsed_data, processingTime
SetProcessed(f) ==
    [status |-> "success", rawMarkdown |-> f, parsedJson |-> f,
     processingTime |-> 1]

\* The message of the Error thrown for a non-OK response of each stage call:
\* errorData.detail || '<fallback>'.  The fallback is what the model keeps.
FailMessage(call) ==
    CASE call = "process" -> "Processing failed"
      [] call = "extract" -> "OCR failed"
      [] OTHER -> "Parse failed"

\* A policy has returned: lines 81-82 of handleStart follow in the same
\* microtask chain (fin tells the action to clear the flag and the ref), and
\* the locals of the invocation are gone.
Finished(res, run) ==
    [res |-> res, run |-> [IdleRun EXCEPT !.pc = "done"], fin |-> TRUE]

\* A stage call is issued: the run is suspended in `call` with the signal of
\* the controller the ref holds now (none for unload).
Issue(res, run, call, sig) ==
    [res |-> res, run |-> [run EXCEPT !.pc = call, !.sig = sig], fin |-> FALSE]

(***************************************************************************)
(* handleNormalProcessing (Performance).                                    *)
(***************************************************************************)
\* The head of iteration i, up to the fetch of /api/ocr/process.
NormalLoop(res, run, i) ==
    IF i < run.n /\ ~SignalAborted
    THEN Issue(MapAt(res, i, SetProcessing), [run EXCEPT !.i = i],
               "process", abortRef)
    ELSE Finished(res, [run EXCEPT !.i = i])

\* NormalDone with a catch that does not tell AbortError from a failure.
NormalDone_AbortIsError(res, run, isAbort, o) ==
    IF ~isAbort /\ o # "fail"
    THEN NormalLoop(
            MapAt(res, run.i,
                  SetProcessed(Field(o, run.i))),
            run, run.i + 1)
    ELSE NormalLoop(
            MapAt(res, run.i, SetError(FailMessage("process"))),
            run, run.i + 1)

\* The fetch of iteration run.i has settled with outcome o.
NormalDone(res, run, isAbort, o) ==
    IF isAbort
    THEN Finished(MapAt(res, run.i, SetPending), run)
    ELSE IF o # "fail"
    THEN NormalLoop(
            MapAt(res, run.i,
                  SetProcessed(Field(o, run.i))),
            run, run.i + 1)
    ELSE NormalLoop(
            MapAt(res, run.i, SetError(FailMessage("process"))),
            run, run.i + 1)

(***************************************************************************)
(* handleBatchProcessing (Batch).                                           *)
(***************************************************************************)
\* BatchAfterPhase1 that skips the unload when no extract has succeeded.
BatchAfterPhase1_SkipsWhenEmpty(res, run) ==
    IF SignalAborted \/ run.md = <<>>
    THEN Finished(res, run)
    ELSE Issue(res, run, "unload", NullRef)

\* After the Phase 1 loop: line 201, then the fetch of /api/ocr/unload,
\* which carries no signal.
BatchAfterPhase1(res, run) ==
    IF SignalAborted
    THEN Finished(res, run)
    ELSE Issue(res, run, "unload", NullRef)

\* The head of Phase 1 iteration i, up to the fetch of /api/ocr/extract.
BatchLoop1(res, run, i) ==
    IF i < run.n /\ ~SignalAborted
    THEN Issue(MapAt(res, i, SetProcessing), [run EXCEPT !.i = i],
               "extract", abortRef)
    ELSE BatchAfterPhase1(res, [run EXCEPT !.i = i])

\* The extract fetch of Phase 1 iteration run.i has settled.
BatchExtractDone(res, run, isAbort, o) ==
    IF isAbort
    THEN BatchAfterPhase1(res, run)
    ELSE IF o # "fail"
    THEN BatchLoop1(
            MapAt(res, run.i,
                  [rawMarkdown |-> Field(o, run.i), status |-> "pending"]),
            [run EXCEPT !.md = Append(@, run.i)], run.i + 1)
    ELSE BatchLoop1(
            MapAt(res, run.i, SetError(FailMessage("extract"))),
            run, run.i + 1)

\* The head of the Phase 3 iteration over markdownResults[p] (p is 1-based
\* here), up to the fetch of /api/llm/parse.
BatchLoop3(res, run, p) ==
    IF p <= Len(run.md) /\ ~SignalAborted
    THEN Issue(MapAt(res, run.md[p], SetProcessing), [run EXCEPT !.p = p],
               "parse", abortRef)
    ELSE Finished(res, [run EXCEPT !.p = p])

\* BatchParseDone with a fetch that ignores its signal: the response of an
\* aborted call is applied.
BatchParseDone_IgnoresSignal(res, run, isAbort, o) ==
    BatchLoop3(
        MapAt(res, run.md[run.p], SetParsed(run.md[run.p])),
        run, run.p + 1)

\* The parse fetch of Phase 3 has settled.
BatchParseDone(res, run, isAbort, o) ==
    IF isAbort
    THEN Finished(res, run)
    ELSE IF o # "fail"
    THEN BatchLoop3(
            MapAt(res, run.md[run.p],
                  SetParsed(Field(o, run.md[run.p]))),
            run, run.p + 1)
    ELSE BatchLoop3(
            MapAt(res, run.md[run.p],
                  SetError(FailMessage("parse"))),
            run, run.p + 1)

(***************************************************************************)
(* handleLowVramProcessing (Low-VRAM).                                      *)
(***************************************************************************)
\* The head of iteration i, up to the fetch of /api/ocr/extract.
LowVramLoop(res, run, i) ==
    IF i < run.n /\ ~SignalAborted
    THEN Issue(MapAt(res, i, SetProcessing), [run EXCEPT !.i = i],
               "extract", abortRef)
    ELSE Finished(res, [run EXCEPT !.i = i])

\* LowVramExtractDone that unloads the OCR model after a failed extract too.
LowVramExtractDone_UnloadsAlways(res, run, isAbort, o) ==
    IF isAbort
    THEN Finished(res, run)
    ELSE IF o # "fail"
    THEN Issue(MapAt(res, run.i, [rawMarkdown |-> Field(o, run.i)]),
               run, "unload", NullRef)
    ELSE Issue(MapAt(res, run.i, SetError(FailMessage("extract"))),
               run, "unload", NullRef)

\* The extract fetch of iteration run.i has settled; on success the unload
\* fetch follows, without a signal.
LowVramExtractDone(res, run, isAbort, o) ==
    IF isAbort
    THEN Finished(res, run)
    ELSE IF o # "fail"
    THEN Issue(MapAt(res, run.i, [rawMarkdown |-> Field(o, run.i)]),
               run, "unload", NullRef)
    ELSE LowVramLoop(
            MapAt(res, run.i, SetError(FailMessage("extract"))),
            run, run.i + 1)

\* LowVramUnloadDone that parses for the file after the one extracted.
LowVramUnloadDone_NextFile(res, run) ==
    Issue(res, [run EXCEPT !.i = run.i + 1], "parse", abortRef)

\* The unload fetch has settled (its failure is only logged): the parse
\* fetch is issued with the signal of the controller the ref holds now.
LowVramUnloadDone(res, run) == Issue(res, run, "parse", abortRef)

\* The parse fetch of iteration run.i has settled.
LowVramParseDone(res, run, isAbort, o) ==
    IF isAbort
    THEN Finished(res, run)
    ELSE IF o # "fail"
    THEN LowVramLoop(MapAt(res, run.i, SetParsed(Field(o, run.i))),
                     run, run.i + 1)
    ELSE LowVramLoop(
            MapAt(res, run.i, SetError(FailMessage("parse"))),
            run, run.i + 1)

(***************************************************************************)
(* The run as a whole.                                                      *)
(***************************************************************************)
\* The switch of handleStart (lines 66-79): the policy runs from its first
\* loop head.
EnterPolicy(res, run) ==
    CASE run.mode = "performance" -> NormalLoop(res, run, 0)
      [] run.mode = "batch" -> BatchLoop1(res, run, 0)
      [] OTHER -> LowVramLoop(res, run, 0)

\* StageDone that treats a failed unload as the failure of the job.
StageDone_UnloadFailIsError(res, run, isAbort, o) ==
    CASE run.mode = "performance" -> NormalDone(res, run, isAbort, o)
      [] run.mode = "batch" /\ run.pc = "extract" ->
            BatchExtractDone(res, run, isAbort, o)
      [] run.mode = "batch" /\ run.pc = "unload" -> BatchLoop3(res, run, 1)
      [] run.mode = "batch" /\ run.pc = "parse" ->
            BatchParseDone(res, run, isAbort, o)
      [] run.mode = "lowvram" /\ run.pc = "extract" ->
            LowVramExtractDone(res, run, isAbort, o)
      [] run.mode = "lowvram" /\ run.pc = "unload" ->
            IF o = "fail"
            THEN LowVramLoop(
                    MapAt(res, run.i, SetError(FailMessage("unload"))),
                    run, run.i + 1)
            ELSE LowVramUnloadDone(res, run)
      [] OTHER -> LowVramParseDone(res, run, isAbort, o)

\* The continuation of a run whose call has settled: rejected with
\* AbortError (isAbort), or else with outcome o.
StageDone(res, run, isAbort, o) ==
    CASE run.mode = "performance" -> NormalDone(res, run, isAbort, o)
      [] run.mode = "batch" /\ run.pc = "extract" ->
            BatchExtractDone(res, run, isAbort, o)
      [] run.mode = "batch" /\ run.pc = "unload" -> BatchLoop3(res, run, 1)
      [] run.mode = "batch" /\ run.pc = "parse" ->
            BatchParseDone(res, run, isAbort, o)
      [] run.mode = "lowvram" /\ run.pc = "extract" ->
            LowVramExtractDone(res, run, isAbort, o)
      [] run.mode = "lowvram" /\ run.pc = "unload" ->
            LowVramUnloadDone(res, run)
      [] OTHER -> LowVramParseDone(res, run, isAbort, o)

\* The step of run r to the continuation k; when the policy has returned,
\* handleStart clears the flag and the ref (lines 81-82).
Continue(r, k, op) ==
    /\ last' = op
    /\ results' = k.res
    /\ runs' = [runs EXCEPT ![r] = k.run]
    /\ IF k.fin
       THEN isProcessing' = FALSE /\ abortRef' = NullRef
       ELSE UNCHANGED <<isProcessing, abortRef>>
    /\ UNCHANGED <<retry, selectedUrl, files, aborted, nRuns, nextUrl, revoked, selectedIndex,
                   selectedOpen, stopped>>

\* Run r has a step pending in the microtask queue.
Urgent(r) ==
    \/ runs[r].pc = "setup"
    \/ runs[r].pc \in CallPcs /\ CallAborted(r)

Quiet == \A r \in RunIds : ~Urgent(r)

\* InitialResults that lists the files last to first.
InitialResults_Reversed(n, url) ==
    [k \in 1..n |->
        [filename |-> n - k, status |-> "pending", rawMarkdown |-> NoData,
         parsedJson |-> NoData, error |-> NoError, processingTime |-> NoData,
         fileUrl |-> url + k]]

\* InitialResults with one object URL shared by all the jobs.
InitialResults_SharedUrl(n, url) ==
    [k \in 1..n |->
        [filename |-> k - 1, status |-> "pending", rawMarkdown |-> NoData,
         parsedJson |-> NoData, error |-> NoError, processingTime |-> NoData,
         fileUrl |-> url + 1]]

\* files.map(f => ({ filename: f.name, status: 'pending',
\*                   fileUrl: URL.createObjectURL(f) }))
InitialResults(n, url) ==
    [k \in 1..n |->
        [filename |-> k - 1, status |-> "pending", rawMarkdown |-> NoData,
         parsedJson |-> NoData, error |-> NoError, processingTime |-> NoData,
         fileUrl |-> url + k]]

\* handleStop's setResults: every 'processing' item becomes 'pending'.
StopResults(res) ==
    [k \in 1..Len(res) |->
        IF res[k].status = "processing"
        THEN Merge(res[k], SetPending)
        ELSE res[k]]

\* handleStop's abort of the controller the ref holds, if any.
StopAborted(ref, ab) == IF ref # NullRef THEN ab \cup {ref} ELSE ab

\* RemoveAt that drops the last job whatever the index.
RemoveAt_DropsLast(res, k) == [j \in 1..(Len(res) - 1) |-> res[j]]

\* prev.filter((_, i) => i !== index), with the 1-based position k.
RemoveAt(res, k) ==
    [j \in 1..(Len(res) - 1) |-> IF j < k THEN res[j] ELSE res[j + 1]]

\* handleUpdateResult's map: { ...r, parsedJson } at index.
UpdateAt(res, index, value) ==
    MapAt(res, index, [parsedJson |-> value])

(***************************************************************************)
(* Actions.                                                                 *)
(***************************************************************************)
Init ==
    /\ results = <<>>
    /\ isProcessing = FALSE
    /\ abortRef = NullRef
    /\ aborted = {}
    /\ runs = [r \in RunIds |-> IdleRun]
    /\ nRuns = 0
    /\ nextUrl = 0
    /\ revoked = {}
    /\ selectedIndex = -1
    /\ selectedOpen = FALSE
    /\ selectedUrl = NoUrl
    /\ stopped = FALSE
    /\ last = "init"
    /\ files = <<>>
    /\ retry = [u \in Urls |-> [pc |-> "fetch", attempt |-> 0, oks |-> 0,
                                 onSuccess |-> 0, onFinally |-> 0]]

\* The Start button (handleStartStop with the flag clear and files chosen)
\* and handleStart up to line 64.
handleStart(n, mode) ==
    /\ Quiet
    /\ ~isProcessing
    /\ nRuns < MaxRuns
    /\ isProcessing' = TRUE
    /\ nRuns' = nRuns + 1
    /\ abortRef' = nRuns + 1
    /\ results' = InitialResults(n, nextUrl)
    /\ nextUrl' = nextUrl + n
    /\ runs' = [runs EXCEPT ![nRuns + 1] =
                    [IdleRun EXCEPT !.mode = mode, !.n = n, !.pc = "setup"]]
    /\ stopped' = FALSE
    /\ last' = "start"
    /\ UNCHANGED <<retry, selectedUrl, files, aborted, revoked, selectedIndex, selectedOpen>>

\* handleStart from line 66 to the first fetch of the policy.
BeginPolicy(r) ==
    /\ runs[r].pc = "setup"
    /\ Continue(r, EnterPolicy(results, runs[r]), "begin")

\* The call of run r settles normally, with outcome o.
StageSettles(r, o) ==
    /\ Quiet
    /\ runs[r].pc \in CallPcs
    /\ Continue(r, StageDone(results, runs[r], FALSE, o), "settle")

\* The runs whose call in flight carries an aborted signal.
AbortedRuns == {r \in RunIds : runs[r].pc \in CallPcs /\ CallAborted(r)}

\* abort() rejects every fetch that carries the signal, and the catch of
\* each run (with the check that follows its loop) runs in the microtask of
\* its rejection, before the continuation of any handleStart (lines 81-82):
\* the runs from r on unwind one after the other, all reading the ref as it
\* is now.
RECURSIVE UnwindFrom(_, _)
UnwindFrom(r, acc) ==
    IF r > MaxRuns
    THEN acc
    ELSE IF r \in AbortedRuns
    THEN LET k == StageDone(acc.res, runs[r], TRUE, "fail")
         IN  UnwindFrom(r + 1, [res |-> k.res,
                                run |-> [acc.run EXCEPT ![r] = k.run],
                                fin |-> acc.fin \/ k.fin])
    ELSE UnwindFrom(r + 1, acc)

\* The calls whose signal is aborted, that of run r the first of them,
\* reject with AbortError.
StageAborts(r) ==
    /\ r \in AbortedRuns
    /\ \A q \in AbortedRuns : r <= q
    /\ LET k == UnwindFrom(r, [res |-> results, run |-> runs, fin |-> FALSE])
       IN  /\ last' = "abort"
           /\ results' = k.res
           /\ runs' = k.run
           /\ IF k.fin
              THEN isProcessing' = FALSE /\ abortRef' = NullRef
              ELSE UNCHANGED <<isProcessing, abortRef>>
    /\ UNCHANGED <<retry, selectedUrl, files, aborted, nRuns, nextUrl, revoked, selectedIndex,
                   selectedOpen, stopped>>

\* The Stop button (handleStartStop with the flag set) and handleStop.
handleStop ==
    /\ Quiet
    /\ isProcessing
    /\ aborted' = StopAborted(abortRef, aborted)
    /\ results' = StopResults(results)
    /\ isProcessing' = FALSE
    /\ stopped' = TRUE
    /\ last' = "stop"
    /\ UNCHANGED <<retry, selectedUrl, files, abortRef, runs, nRuns, nextUrl, revoked,
                   selectedIndex, selectedOpen>>

\* The remove button of result card k (1-based) and handleRemoveResult.
handleRemoveResult(k) ==
    /\ Quiet
    /\ k \in 1..Len(results)
    /\ revoked' = revoked \cup {results[k].fileUrl}
    /\ results' = RemoveAt(results, k)
    /\ last' = "remove"
    /\ UNCHANGED <<retry, selectedUrl, files, isProcessing, abortRef, aborted, runs, nRuns, nextUrl,
                   selectedIndex, selectedOpen, stopped>>

\* A click on result card k (1-based): openResult opens a success job.
openResult(k) ==
    /\ Quiet
    /\ k \in 1..Len(results)
    /\ results[k].status = "success"
    /\ selectedIndex' = k - 1
    /\ selectedOpen' = TRUE
    /\ selectedUrl' = results[k].fileUrl
    /\ last' = "open"
    /\ UNCHANGED <<retry, files, results, isProcessing, abortRef, aborted, runs, nRuns,
                   nextUrl, revoked, stopped>>

\* The modal is closed: setSelectedResult(null).  The result view renders
\* nothing, the modal included, while the list is empty.
closeResult ==
    /\ Quiet
    /\ selectedOpen
    /\ Len(results) > 0
    /\ selectedOpen' = FALSE
    /\ selectedUrl' = NoUrl
    /\ last' = "close"
    /\ UNCHANGED <<retry, files, results, isProcessing, abortRef, aborted, runs, nRuns,
                   nextUrl, revoked, selectedIndex, stopped>>

\* Apply in the open modal, with text that parses: handleApplyChanges calls
\* handleUpdateResult(selectedIndex, parsed).
handleUpdateResult ==
    /\ Quiet
    /\ selectedOpen
    /\ Len(results) > 0
    /\ selectedIndex >= 0
    /\ results' = UpdateAt(results, selectedIndex, EditedJson)
    /\ last' = "update"
    /\ UNCHANGED <<retry, selectedUrl, files, isProcessing, abortRef, aborted, runs, nRuns, nextUrl,
                   revoked, selectedIndex, selectedOpen, stopped>>

Next ==
    \/ \E n \in 1..MaxFiles, mode \in Modes : handleStart(n, mode)
    \/ \E r \in RunIds : BeginPolicy(r)
    \/ \E r \in RunIds, o \in Outcomes : StageSettles(r, o)
    \/ \E r \in RunIds : StageAborts(r)
    \/ handleStop
    \/ \E k \in 1..MaxFiles : handleRemoveResult(k)

\* The controller with its job list, and the runs.
Spec == Init /\ [][Next]_vars

\* The same with the result view's modal, through which jobs are edited.
NextEdit ==
    \/ Next
    \/ \E k \in 1..MaxFiles : openResult(k)
    \/ closeResult
    \/ handleUpdateResult

SpecEdit == Init /\ [][NextEdit]_vars

\* The controller with a backend whose OK responses may lack a field.
NextFaulty ==
    \/ Next
    \/ \E r \in RunIds, o \in FaultyOutcomes \ Outcomes : StageSettles(r, o)

SpecFaulty == Init /\ [][NextFaulty]_vars

(***************************************************************************)
(* FileUpload: the list of files the Start button hands to handleStart.     *)
(***************************************************************************)
\* The files a user can drop or select: a name, a size, and whether
\* isValidFile accepts the type or the extension.
Names == {"a.pdf", "b.png"}
Sizes == {10, 20}
DropFiles == [name : Names, size : Sizes, valid : BOOLEAN]

\* e.dataTransfer.files / e.target.files: one to MaxDrop files.
Drops == UNION {[1..n -> DropFiles] : n \in 1..MaxDrop}

isValidFile(file) == file.valid

\* existingFiles.some(f => f.name === file.name && f.size === file.size)
isDuplicate(file, existingFiles) ==
    \E k \in 1..Len(existingFiles) :
        existingFiles[k].name = file.name /\ existingFiles[k].size = file.size

\* The updater of handleDrop and handleFileInput: the valid files of the
\* drop that are no duplicate of a file of prev, appended to prev.
AddFiles(prev, dropped) ==
    LET Valid(f) == isValidFile(f)
        Fresh(f) == ~isDuplicate(f, prev)
    IN  prev \o SelectSeq(SelectSeq(dropped, Valid), Fresh)

handleDrop(dropped) ==
    /\ Len(AddFiles(files, dropped)) <= MaxUploads
    /\ files' = AddFiles(files, dropped)
    /\ UNCHANGED <<retry, selectedUrl, results, isProcessing, abortRef, aborted, runs, nRuns,
                   nextUrl, revoked, selectedIndex, selectedOpen, stopped,
                   last>>

handleFileInput(selectedFiles) ==
    /\ Len(AddFiles(files, selectedFiles)) <= MaxUploads
    /\ files' = AddFiles(files, selectedFiles)
    /\ UNCHANGED <<retry, selectedUrl, results, isProcessing, abortRef, aborted, runs, nRuns,
                   nextUrl, revoked, selectedIndex, selectedOpen, stopped,
                   last>>

\* prev.filter((_, i) => i !== index), with the 1-based position k.
removeFile(k) ==
    /\ k <= Len(files)
    /\ files' = [j \in 1..(Len(files) - 1) |->
                    IF j < k THEN files[j] ELSE files[j + 1]]
    /\ UNCHANGED <<retry, selectedUrl, results, isProcessing, abortRef, aborted, runs, nRuns,
                   nextUrl, revoked, selectedIndex, selectedOpen, stopped,
                   last>>

NextUpload ==
    \/ \E dropped \in Drops : handleDrop(dropped)
    \/ \E selectedFiles \in Drops : handleFileInput(selectedFiles)
    \/ \E k \in 1..MaxUploads : removeFile(k)

\* The upload panel on its own, before Start is pressed.
SpecUpload == Init /\ [][NextUpload]_vars

\* ---------------------------------------------------------------------
\* fetchWithRetry (FileUpload.tsx, the mount effect).  Each invocation is
\* suspended at one of its three awaits: "fetch" (await fetch(url)), "json"
\* (await res.json()) and "wait" (await the timer), or it has returned
\* ("done").  `oks` counts the OK responses received; onSuccess and
\* onFinally count the calls of the two callbacks.

\* The end of one pass of the loop body: the timer fires, attempt++ and the
\* loop test; when the loop is over, the trailing onFinally() and return.
AfterWait(f) ==
    IF f.attempt + 1 < MaxRetries
    THEN [f EXCEPT !.attempt = @ + 1, !.pc = "fetch"]
    ELSE [f EXCEPT !.attempt = @ + 1, !.pc = "done", !.onFinally = @ + 1]

\* `await fetch(url)` settles.  A rejection is caught and swallowed, a
\* response that is not OK skips the if: both go on to the timer.
FetchSettles(u, o) ==
    /\ retry[u].pc = "fetch"
    /\ retry' = [retry EXCEPT ![u] =
           IF o = "ok" THEN [@ EXCEPT !.pc = "json", !.oks = @ + 1]
           ELSE [@ EXCEPT !.pc = "wait"]]
    /\ UNCHANGED <<results, isProcessing, abortRef, aborted, runs, nRuns,
                   nextUrl, revoked, selectedIndex, selectedOpen, selectedUrl,
                   stopped, last, files>>

\* `await res.json()` settles, inside the same try.  A rejection is caught.
\* Otherwise onSuccess(data) is called: if it returns, onFinally() and
\* return; if it throws, the catch swallows that as well and the loop goes on.
BodySettles(u, b) ==
    /\ retry[u].pc = "json"
    /\ retry' = [retry EXCEPT ![u] =
           IF b = "nojson" THEN [@ EXCEPT !.pc = "wait"]
           ELSE IF b = "null"
           THEN [@ EXCEPT !.pc = "wait", !.onSuccess = @ + 1]
           ELSE [@ EXCEPT !.pc = "done", !.onSuccess = @ + 1,
                          !.onFinally = @ + 1]]
    /\ UNCHANGED <<results, isProcessing, abortRef, aborted, runs, nRuns,
                   nextUrl, revoked, selectedIndex, selectedOpen, selectedUrl,
                   stopped, last, files>>

\* The timer of baseDelay ms fires.
TimerFires(u) ==
    /\ retry[u].pc = "wait"
    /\ retry' = [retry EXCEPT ![u] = AfterWait(@)]
    /\ UNCHANGED <<results, isProcessing, abortRef, aborted, runs, nRuns,
                   nextUrl, revoked, selectedIndex, selectedOpen, selectedUrl,
                   stopped, last, files>>

NextRetry ==
    \/ \E u \in Urls, o \in FetchOutcomes : FetchSettles(u, o)
    \/ \E u \in Urls, b \in Bodies : BodySettles(u, b)
    \/ \E u \in Urls : TimerFires(u)

\* The two fetches the upload panel starts when it mounts.
SpecRetry == Init /\ [][NextRetry]_vars

(***************************************************************************)
(* Vocabulary of the properties.                                            *)
(***************************************************************************)
\* Run r is inside its policy (between handleStart's setup and its return).
Active(r) == runs[r].pc \in CallPcs \cup {"setup"}

\* This step is a step of run r's own code.
StepOf(r) == Active(r) /\ runs'[r] # runs[r]

\* This step issues a stage call of run r.
IssuesCall(r) == StepOf(r) /\ runs'[r].pc \in CallPcs

\* A later handleStart has replaced run r.
Superseded(r) == r < nRuns

HasProcessing(res) == \E k \in 1..Len(res) : res[k].status = "processing"

(***************************************************************************)
(* C1.  At most one run is active: a run superseded by a new start()        *)
(* issues no further stage call and mutates the job list no further.        *)
(***************************************************************************)
C1_SupersededRunIsInert ==
    [][\A r \in RunIds :
          Superseded(r) /\ StepOf(r) => results' = results /\ ~IssuesCall(r)]_vars

(***************************************************************************)
(* C2.  After stop(), and until start() is called again, no job has status  *)
(* Processing.                                                              *)
(***************************************************************************)
C2_NoProcessingAfterStop == stopped => ~HasProcessing(results)

(***************************************************************************)
(* C3.  Under every policy and in every reachable state at most one job     *)
(* has status Processing.                                                   *)
(***************************************************************************)
C3_AtMostOneProcessing ==
    Cardinality({k \in 1..Len(results) : results[k].status = "processing"}) <= 1

(***************************************************************************)
(* C4.  A stage call that was in flight when stop() signalled its token     *)
(* writes no rawOutput, structuredData, elapsedMs, Success or Error to any  *)
(* job when it completes; nor does the completion of unload, the one call   *)
(* that carries no token.                                                   *)
(***************************************************************************)
\* This step writes no result of a stage call to any job.
NoResultWritten ==
    /\ Len(results') = Len(results)
    /\ \A k \in 1..Len(results) :
          /\ results'[k].rawMarkdown = results[k].rawMarkdown
          /\ results'[k].parsedJson = results[k].parsedJson
          /\ results'[k].processingTime = results[k].processingTime
          /\ results'[k].error = results[k].error
          /\ results'[k].status # results[k].status =>
                results'[k].status \notin {"success", "error"}

CurrentJob(r) ==
    IF runs[r].mode = "batch" /\ runs[r].pc = "parse"
    THEN runs[r].md[runs[r].p]
    ELSE runs[r].i

CancelStep(r) ==
    /\ StepOf(r)
    /\ runs[r].pc \in CallPcs
    /\ CallAborted(r) \/ (runs[r].pc = "unload" /\ SignalAborted)

C6_ResultsMatchFiles ==
    \A r \in RunIds :
        (Active(r) /\ ~Superseded(r)) =>
            /\ Len(results) = runs[r].n
            /\ \A k \in 1..Len(results) : results[k].filename = k - 1

(***************************************************************************)
(* C7.  remove(i) decreases the job count by exactly 1, releases the        *)
(* preview of the removed job and no other, and leaves every other job as   *)
(* it was, the jobs after i shifted down by one in the same order.          *)
(***************************************************************************)
C7_RemoveFrame ==
    [][last' = "remove" =>
          \E k \in 1..Len(results) :
              /\ Len(results') = Len(results) - 1
              /\ revoked' = revoked \cup {results[k].fileUrl}
              /\ \A j \in 1..Len(results') :
                    results'[j] = IF j < k THEN results[j] ELSE results[j + 1]
              /\ UNCHANGED <<runs, isProcessing, abortRef, aborted>>]_vars

\* A job other than the last was removed while a run was active.
C7_Witness ==
    /\ last = "remove"
    /\ Len(results) = MaxFiles - 1
    /\ results[1].filename = 1
    /\ results[1].status = "processing"
    /\ revoked # {}
    /\ \E r \in RunIds : Active(r)

(***************************************************************************)
(* C8.  update(index, value) overwrites structuredData only for a Success   *)
(* job and is a no-op otherwise; it changes nothing else.                   *)
(***************************************************************************)
C8_UpdateOnlySuccess ==
    [][last' = "update" =>
          /\ Len(results') = Len(results)
          /\ \A k \in 1..Len(results) :
                IF k = selectedIndex + 1 /\ results[k].status = "success"
                THEN results'[k] = [results[k] EXCEPT !.parsedJson = EditedJson]
                ELSE results'[k] = results[k]]_vars

(***************************************************************************)
(* C9.  Right after start()'s synchronous setup the job list has one job    *)
(* per file, in file order, each Pending with no result and with a preview  *)
(* handle of its own.                                                       *)
(***************************************************************************)
C9_StartSetup ==
    \A r \in RunIds :
        runs[r].pc = "setup" =>
            /\ Len(results) = runs[r].n
            /\ \A k \in 1..Len(results) :
                  /\ results[k].filename = k - 1
                  /\ results[k].status = "pending"
                  /\ results[k].rawMarkdown = NoData
                  /\ results[k].parsedJson = NoData
                  /\ results[k].error = NoError
                  /\ results[k].processingTime = NoData
                  /\ results[k].fileUrl > 0
                  /\ results[k].fileUrl \notin revoked
                  /\ \A j \in 1..Len(results) :
                        j # k => results[j].fileUrl # results[k].fileUrl

\* The setup of a second run has replaced a list of resolved jobs.
C9_Witness ==
    /\ last = "start"
    /\ nRuns = 2
    /\ runs[2].pc = "setup"
    /\ runs[2].n = MaxFiles
    /\ Len(results) = MaxFiles
    /\ revoked # {}

(***************************************************************************)
(* C10.  stop() is idempotent and safe with no active run: with no run      *)
(* active it signals no token and leaves the job list unchanged, and a      *)
(* second stop() changes nothing the first has not.                         *)
(***************************************************************************)
NoRunActive == \A r \in RunIds : ~Active(r)

C10_StopIdempotent ==
    /\ NoRunActive =>
          /\ StopResults(results) = results
          /\ StopAborted(abortRef, aborted) = aborted
    /\ StopResults(StopResults(results)) = StopResults(results)
    /\ StopAborted(abortRef, StopAborted(abortRef, aborted)) =
          StopAborted(abortRef, aborted)

(***************************************************************************)
(* C11.  In a Batch run whose Phase 1 is not cancelled, unload is invoked   *)
(* exactly once, after the last extract and before the first parse,         *)
(* whichever extracts failed (all of them included): the step that leaves   *)
(* Phase 1 uncancelled issues unload with every file extracted, unload is   *)
(* issued by no other step, and after it the run only parses.               *)
(***************************************************************************)
\* The Phase 1 loop of run r ends by cancellation at this step: its extract
\* is rejected with AbortError, or the controller of the ref is aborted.
Phase1Cancelled(r) == CallAborted(r) \/ SignalAborted

C11_BatchUnloadOnce ==
    [][\A r \in RunIds :
          StepOf(r) /\ runs[r].mode = "batch" =>
             /\ runs'[r].pc = "unload" => runs[r].pc = "extract"
             /\ (/\ runs[r].pc \in {"setup", "extract"}
                 /\ runs'[r].pc # "extract"
                 /\ ~Phase1Cancelled(r))
                   => runs'[r].pc = "unload" /\ runs'[r].i = runs[r].n
             /\ runs[r].pc \in {"unload", "parse"}
                   => runs'[r].pc \in {"parse", "done"}]_vars

\* Every extract of a Batch run has failed and the run is in its unload.
C11_Witness ==
    \E r \in RunIds :
        /\ runs[r].mode = "batch"
        /\ runs[r].pc = "unload"
        /\ runs[r].n = MaxFiles
        /\ runs[r].md = <<>>
        /\ Len(results) = MaxFiles
        /\ \A k \in 1..Len(results) : results[k].status = "error"

(***************************************************************************)
(* C12.  In a Low-VRAM run unload is invoked once for each job whose        *)
(* extract completed, between that job's extract and its parse, and not at  *)
(* all for a job whose extract failed or was cancelled.                     *)
(***************************************************************************)
C12_LowVramUnloadPerExtract ==
    [][\A r \in RunIds :
          StepOf(r) /\ runs[r].mode = "lowvram" =>
             /\ runs'[r].pc = "unload" <=>
                   /\ runs[r].pc = "extract"
                   /\ ~CallAborted(r)
                   /\ StageSettles(r, "ok")
             /\ runs[r].pc = "unload" =>
                   runs'[r].pc = "parse" /\ runs'[r].i = runs[r].i
             /\ runs'[r].pc = "parse" => runs[r].pc = "unload"]_vars

\* The extract of the first job has failed, that of the second has succeeded
\* and its unload is in flight.
C12_Witness ==
    \E r \in RunIds :
        /\ runs[r].mode = "lowvram"
        /\ runs[r].pc = "unload"
        /\ runs[r].i = 1
        /\ Len(results) = 2
        /\ results[1].status = "error"
        /\ results[2].rawMarkdown = 1

(***************************************************************************)
(* C13.  Order preservation: the filenames of the job list are always in    *)
(* input file order (after removals, the input order restricted to the      *)
(* jobs that remain), and a step other than start() and remove() (a step   *)
(* of a policy, stop() or update()) changes no filename and moves no job.   *)
(***************************************************************************)
\* The sequence of the filenames of the job list; a file is named by its
\* index in the input.
Filenames(res) == [k \in 1..Len(res) |-> res[k].filename]

InInputOrder(res) ==
    \A j, k \in 1..Len(res) : j < k => res[j].filename < res[k].filename

C13_OrderPreserved ==
    /\ []InInputOrder(results)
    /\ [][last' \notin {"start", "remove"} =>
             Filenames(results') = Filenames(results)]_vars

\* The first job has failed, the second has succeeded and been edited, and
\* the two are still in input order.
C13_Witness ==
    /\ Len(results) = 2
    /\ results[1].status = "error"
    /\ results[2].status = "success"
    /\ results[2].parsedJson = EditedJson
    /\ last = "update"

(***************************************************************************)
(* C14.  In every reachable state and for every job, the error field is     *)
(* present if and only if the status of the job is Error.                   *)
(***************************************************************************)
C14_ErrorIffStatusError ==
    \A k \in 1..Len(results) :
        results[k].error # NoError <=> results[k].status = "error"

C16_EveryCallCarriesToken ==
    \A r \in RunIds : runs[r].pc \in CallPcs => runs[r].sig = r

(***************************************************************************)
(* C17.  Within one run, stage calls are issued in input index order and    *)
(* never overlap: a run issues a call only in the step in which its         *)
(* previous call has settled, the first call is for job 0, and each later   *)
(* call is the next stage of the same job or the first stage of the next    *)
(* job; in Batch every extract precedes the one unload, which precedes      *)
(* every parse, and each phase goes up the input order.                     *)
(***************************************************************************)
\* The index (0-based) of the job a run record is working on.
JobOf(run) ==
    IF run.mode = "batch" /\ run.pc = "parse" THEN run.md[run.p] ELSE run.i

\* The rank of a stage call in the sequence of the stages of one job.
Rank(call) ==
    CASE call \in {"process", "extract"} -> 1
      [] call = "unload" -> 2
      [] OTHER -> 3

C17_CallsInIndexOrder ==
    [][\A r \in RunIds :
          IssuesCall(r) =>
             IF runs[r].pc = "setup"
             THEN JobOf(runs'[r]) = 0 /\ Rank(runs'[r].pc) = 1
             ELSE IF runs[r].mode = "batch"
             THEN \/ /\ Rank(runs'[r].pc) = Rank(runs[r].pc)
                     /\ runs[r].pc # "unload"
                     /\ JobOf(runs'[r]) > JobOf(runs[r])
                  \/ Rank(runs'[r].pc) = Rank(runs[r].pc) + 1
             ELSE \/ /\ JobOf(runs'[r]) = JobOf(runs[r])
                     /\ Rank(runs'[r].pc) = Rank(runs[r].pc) + 1
                  \/ /\ JobOf(runs'[r]) = JobOf(runs[r]) + 1
                     /\ Rank(runs'[r].pc) = 1]_vars

\* A Batch run has extracted both files, unloaded, parsed the first and is
\* in the parse of the second.
C17_Witness ==
    \E r \in RunIds :
        /\ runs[r].mode = "batch"
        /\ runs[r].pc = "parse"
        /\ runs[r].md = <<0, 1>>
        /\ runs[r].p = 2
        /\ Len(results) = 2
        /\ results[1].status = "success"
        /\ results[2].status = "processing"

(***************************************************************************)
(* C18.  Stage failures are isolated and the batch runs to completion: if   *)
(* stop() is never called, then once the run has returned every job is      *)
(* Success or Error, whatever subset of the stage calls has failed.         *)
(***************************************************************************)
\* stop() has never been called: the first stop() of a session finds the
\* controller of the only run in the ref and aborts it.
NeverStopped == aborted = {}

C18_RunsToCompletion ==
    (NeverStopped /\ nRuns >= 1 /\ NoRunActive) =>
        \A k \in 1..Len(results) : results[k].status \in {"success", "error"}

(***************************************************************************)
(* C19.  Under any policy, when the extract or process call of a job        *)
(* returns an OK response that lacks an expected field, that job resolves   *)
(* to Error with a non-empty message, never to Success or Pending.          *)
(***************************************************************************)
\* This step is run r receiving a malformed OK response to the extract or
\* process call of a job that is still at its index.
MalformedResponse(r) ==
    /\ runs[r].pc \in {"process", "extract"}
    /\ runs[r].i < Len(results)
    /\ StageSettles(r, "malformed")

C19_MalformedIsError ==
    [][\A r \in RunIds :
          MalformedResponse(r) =>
             /\ results'[runs[r].i + 1].status = "error"
             /\ results'[runs[r].i + 1].error # NoError]_vars

(***************************************************************************)
(* C20.  Every preview handle acquired at job creation is released when     *)
(* its job is removed or when its run is superseded by a new start(): a     *)
(* handle that no job of the list holds any more has been released.         *)
(***************************************************************************)
\* The object URLs the jobs of the list hold.
HeldUrls(res) == {res[k].fileUrl : k \in 1..Len(res)}

C20_PreviewsReleased ==
    \A u \in 1..nextUrl : u \in HeldUrls(results) \/ u \in revoked

(***************************************************************************)
(* C21.  A failure of unload is always swallowed in Batch and Low-VRAM: the *)
(* step that follows the unload is the same whether it failed or not, it    *)
(* sets no job to Error and writes no error message, and the next parse is  *)
(* issued as after a successful unload.                                     *)
(***************************************************************************)
C21_UnloadFailureSwallowed ==
    [][\A r \in RunIds :
          StepOf(r) /\ runs[r].pc = "unload" =>
             /\ StageSettles(r, "fail") /\ StageSettles(r, "ok")
             /\ \A k \in 1..Len(results') :
                   /\ results'[k].error = results[k].error
                   /\ results'[k].status = "error" =>
                         results[k].status = "error"
             /\ runs[r].mode = "lowvram" => runs'[r].pc = "parse"
             /\ (/\ runs[r].mode = "batch"
                 /\ runs[r].md # <<>>
                 /\ ~SignalAborted) => runs'[r].pc = "parse"]_vars

\* A Low-VRAM run is past the unload of its second file, in the parse of
\* that file, and no job has an error.
C21_Witness ==
    \E r \in RunIds :
        /\ runs[r].mode = "lowvram"
        /\ runs[r].pc = "parse"
        /\ runs[r].i = 1
        /\ Len(results) = 2
        /\ results[2].status = "processing"
        /\ results[2].rawMarkdown = 1
        /\ \A k \in 1..Len(results) : results[k].error = NoError

(***************************************************************************)
(* C22.  When a stage call returns a non-OK result, the job of that call    *)
(* is set to Error with the message of that stage ('OCR failed' for         *)
(* extract, 'Parse failed' for parse, 'Processing failed' for process,      *)
(* when the body brings no message of its own), and to no other status.     *)
(***************************************************************************)
\* This step is the current run r receiving a non-OK response to a call
\* other than unload.
FailedCall(r) ==
    /\ ~Superseded(r)
    /\ runs[r].pc \in CallPcs \ {"unload"}
    /\ StageSettles(r, "fail")

C22_FailureIsError ==
    [][\A r \in RunIds, k \in 1..Len(results) :
          FailedCall(r) /\ results[k].filename = JobOf(runs[r]) =>
             /\ results'[k].status = "error"
             /\ results'[k].error = FailMessage(runs[r].pc)]_vars

(***************************************************************************)
(* C23.  Duplicates are filtered at submission time: the file list that     *)
(* start() receives never holds two files with the same name and the same   *)
(* size, also when both arrive in the same drop or file selection.          *)
(***************************************************************************)
C23_NoDuplicateFiles ==
    \A j, k \in 1..Len(files) :
        j < k => ~(files[j].name = files[k].name /\ files[j].size = files[k].size)

(***************************************************************************)
(* C24.  In a Performance run exactly one stage call (process) is issued    *)
(* for each job the loop reaches, and no extract, parse or unload; a job    *)
(* whose call succeeds gets rawMarkdown, parsedJson, processingTime and     *)
(* status Success in a single step.                                         *)
(***************************************************************************)
\* This step is the current run r receiving an OK response to the call of
\* the file of job k.
SucceededFor(r, k) ==
    /\ ~Superseded(r)
    /\ runs[r].pc \in CallPcs \ {"unload"}
    /\ StageSettles(r, "ok")
    /\ k \in 1..Len(results)
    /\ results[k].filename = JobOf(runs[r])

C24_PerformanceOneCallPerJob ==
    [][\A r \in RunIds :
          runs[r].mode = "performance" =>
             /\ IssuesCall(r) =>
                   /\ runs'[r].pc = "process"
                   /\ runs'[r].i = IF runs[r].pc = "setup"
                                   THEN 0 ELSE runs[r].i + 1
             /\ \A k \in 1..Len(results) :
                   SucceededFor(r, k) =>
                      /\ results'[k].status = "success"
                      /\ results'[k].rawMarkdown = runs[r].i
                      /\ results'[k].parsedJson = runs[r].i
                      /\ results'[k].processingTime # NoData]_vars

(***************************************************************************)
(* C25.  In a Batch run, after Phase 1 every job whose extract succeeded is *)
(* Pending with rawMarkdown set and every job whose extract failed is       *)
(* Error; Phase 3 parses exactly the jobs whose extract succeeded, and a    *)
(* job that failed Phase 1 stays Error to the end of the run.               *)
(***************************************************************************)
\* The files whose extract succeeded in Phase 1 of run r (markdownResults).
Extracted(r) == {runs[r].md[p] : p \in 1..Len(runs[r].md)}

C25_BatchPhaseResults ==
    \A r \in RunIds :
        ~Superseded(r) /\ runs[r].mode = "batch" =>
            \A k \in 1..Len(results) :
                /\ (/\ runs[r].pc = "unload"
                    /\ results[k].filename \in Extracted(r)) =>
                       /\ results[k].status = "pending"
                       /\ results[k].rawMarkdown = results[k].filename
                /\ (/\ runs[r].pc \in {"unload", "parse"}
                    /\ results[k].filename \notin Extracted(r)) =>
                       results[k].status = "error"

(***************************************************************************)
(* C26.  In a Batch run, if stop() is called at any point of Phase 1, the   *)
(* whole run ends: no further extract, no unload and no parse is issued     *)
(* afterwards, and no job is Success.                                       *)
(***************************************************************************)
\* stop() has been called while run r, the latest, was in Phase 1 of Batch.
StoppedInPhase1(r) ==
    /\ r = nRuns
    /\ stopped
    /\ runs[r].mode = "batch"
    /\ runs[r].pc = "extract"

C26_BatchStopInPhase1 ==
    /\ [](\A r \in RunIds :
            StoppedInPhase1(r) =>
                \A k \in 1..Len(results) : results[k].status # "success")
    /\ [][\A r \in RunIds :
             StoppedInPhase1(r) /\ StepOf(r) => ~IssuesCall(r)]_vars

(***************************************************************************)
(* C27.  In a Batch run, if stop() is called during Phase 3 or during the   *)
(* unload, no further parse is issued, and every job not yet parsed that    *)
(* succeeded in Phase 1, the one whose parse was in flight included, is     *)
(* left Pending with its rawMarkdown still set.                             *)
(***************************************************************************)
\* stop() has been called, and no start() since, with the Batch run r in
\* its unload or in Phase 3.
StoppedInPhase3(r) ==
    /\ stopped
    /\ runs[r].mode = "batch"
    /\ runs[r].pc \in {"unload", "parse"}

\* The files extracted in Phase 1 of run r whose parse has not completed.
NotYetParsed(r) ==
    IF runs[r].pc = "unload"
    THEN Extracted(r)
    ELSE {runs[r].md[q] : q \in runs[r].p..Len(runs[r].md)}

C27_BatchStopInPhase3 ==
    /\ [](\A r \in RunIds :
            r = nRuns /\ StoppedInPhase3(r) =>
                \A k \in 1..Len(results) :
                    results[k].filename \in NotYetParsed(r) =>
                        /\ results[k].status = "pending"
                        /\ results[k].rawMarkdown = results[k].filename)
    /\ [][\A r \in RunIds :
             StoppedInPhase3(r) /\ StepOf(r) => ~IssuesCall(r)]_vars

(***************************************************************************)
(* C28.  In a Low-VRAM run, if stop() is called while the extract or the    *)
(* parse of job k is in flight, every job before k keeps the state it had   *)
(* resolved to, job k ends Pending, and no stage call is issued for any     *)
(* job after k.                                                             *)
(***************************************************************************)
\* stop() has been called with the extract or the parse of the Low-VRAM
\* run r, the latest, in flight.
StoppedInCall(r) ==
    /\ r = nRuns
    /\ stopped
    /\ runs[r].mode = "lowvram"
    /\ runs[r].pc \in {"extract", "parse"}

C28_LowVramStopInCall ==
    /\ [](\A r \in RunIds :
            StoppedInCall(r) =>
                \A k \in 1..Len(results) :
                    results[k].filename = runs[r].i =>
                        results[k].status = "pending")
    /\ [][\A r \in RunIds :
             StoppedInCall(r) /\ StepOf(r) =>
                /\ ~IssuesCall(r)
                /\ \A k \in 1..Len(results) :
                      results[k].filename < runs[r].i =>
                         results'[k] = results[k]]_vars

(***************************************************************************)
(* C29.  A stage result is only ever written to the job whose file          *)
(* produced it: the rawMarkdown and the parsedJson a job holds are those    *)
(* of its own file (or, for parsedJson, the value of an edit), also when    *)
(* remove() is called while a run is active.                                *)
(***************************************************************************)
C29_ResultWrittenToOwnJob ==
    \A k \in 1..Len(results) :
        /\ results[k].rawMarkdown \in {NoData, results[k].filename}
        /\ results[k].parsedJson \in {NoData, EditedJson, results[k].filename}

(***************************************************************************)
(* C30.  While the policy loop of a run is active, the controller's token   *)
(* reference is non-null and is the token created by that run's own         *)
(* start(), so that a stop() issued meanwhile always signals it.            *)
(***************************************************************************)
C30_RefIsOwnToken == \A r \in RunIds : Active(r) => abortRef = r

(***************************************************************************)
(* C31.  When a run has terminated (start() has returned, by completion or  *)
(* by cancellation) and no other run is active, no job is left in status    *)
(* Processing, also when remove() was called during a stage call.           *)
(***************************************************************************)
C31_NoProcessingAtRest ==
    (nRuns >= 1 /\ NoRunActive) => ~HasProcessing(results)

(***************************************************************************)
(* C32.  Success and Error are absorbing: once the status of a job is       *)
(* Success or Error, no later step of a policy, no stop() and no remove()   *)
(* of another job changes its status, its rawMarkdown or its error.         *)
(***************************************************************************)
C32_ResolvedIsAbsorbing ==
    [][last' # "start" =>
          \A j \in 1..Len(results), k \in 1..Len(results') :
              (/\ results'[k].fileUrl = results[j].fileUrl
               /\ results[j].status \in {"success", "error"}) =>
                  /\ results'[k].status = results[j].status
                  /\ results'[k].rawMarkdown = results[j].rawMarkdown
                  /\ results'[k].error = results[j].error]_vars

(***************************************************************************)
(* C33.  The processing flag that gates the Start/Stop button is true       *)
(* exactly while a policy loop is active, so that start() can only be       *)
(* invoked when no loop is running and stop() always while one is.          *)
(***************************************************************************)
C33_FlagIffRunActive ==
    Quiet => (isProcessing <=> \E r \in RunIds : Active(r))

\* C34: the result view calls update(index, value) only for a job that had
\* status Success when it was opened.  A job is opened only while it is
\* Success, and an Apply that lands on a job of the list lands on the job
\* that was opened; the job is told by its fileUrl, the row by the index.
\* The value's validity is the guard of handleUpdateResult: the action is the
\* Apply with text that parsed, and its value is the parse's result.
C34_UpdateOnlyTheOpenedJob ==
    [][/\ last' = "open" => results[selectedIndex' + 1].status = "success"
       /\ (last' = "update" /\ selectedIndex < Len(results)) =>
              results[selectedIndex + 1].fileUrl = selectedUrl]_vars

\* C35: fetchWithRetry makes at most maxRetries attempts, calls onSuccess at
\* most once, makes no further attempt after the first OK response, and has
\* called onFinally exactly once when it has returned (and not before).
C35_RetryContract ==
    \A u \in Urls :
        /\ retry[u].attempt <= MaxRetries
        /\ retry[u].onSuccess <= 1
        /\ retry[u].oks <= 1
        /\ retry[u].onFinally = (IF retry[u].pc = "done" THEN 1 ELSE 0)

====
